---- MODULE Spec2Model ----
(***************************************************************************)
(* envalid-unused: warnUnused(cleanedEnv, options) lists the keys of       *)
(* process.env that the envalid schema did not define and that the ignore  *)
(* policy does not exclude, and reports them through one warning.          *)
(*                                                                         *)
(* Strings are modelled as sequences of one-character strings, so that     *)
(* startsWith, join and the decimal rendering of the count are computed    *)
(* character by character as the JavaScript runtime does.                  *)
(***************************************************************************)
EXTENDS Integers, Sequences, FiniteSets, TLC

(***************************************************************************)
(* Bounds of the model.                                                    *)
(***************************************************************************)
\* the largest number of variables in process.env
MaxEnv == 3
\* the largest number of consecutive calls made with unchanged inputs
MaxCalls == 2
\* the largest number of returned names a warning text is built for
MaxCount == 12

(***************************************************************************)
(* The names the caller and the environment draw from.                     *)
(***************************************************************************)
K_SHELL == <<"S", "H", "E", "L", "L">>
K_SHELLOPTS == <<"S", "H", "E", "L", "L", "O", "P", "T", "S">>
K_LC_ALL == <<"L", "C", "_", "A", "L", "L">>
K_PORT == <<"P", "O", "R", "T">>
P_LC_ == <<"L", "C", "_">>
P_LC_A == <<"L", "C", "_", "A">>
P_S == <<"S">>
P_EMPTY == <<>>

\* the value of every property of a cleaned-env object: the code reads none
SomeValue == <<"v", "a", "l", "u", "e">>

\* names that may be set in process.env: one of DEFAULT_IGNORE_VARIABLES, one
\* the defaults do not know (and which starts with the former), one that
\* starts with an entry of DEFAULT_IGNORE_PREFIXES
EnvNames == {K_SHELL, K_SHELLOPTS, K_LC_ALL}
\* key sets a cleanEnv schema may have defined
SchemaKeySets == {{}, {K_SHELLOPTS}, {K_SHELL, K_PORT}}

\* an omitted option, and a supplied array
Undefined == [defined |-> FALSE, items |-> <<>>]
Array(xs) == [defined |-> TRUE, items |-> xs]

\* values a caller passes as ignoreVariables, ignorePrefixes and ignore
IgnoreVariablesChoices ==
    {Undefined, Array(<<>>), Array(<<K_SHELLOPTS>>), Array(<<P_LC_, K_SHELL>>)}
IgnorePrefixesChoices ==
    {Undefined, Array(<<>>), Array(<<K_SHELL>>), Array(<<P_LC_A, K_SHELLOPTS>>)}
IgnoreChoices == {Undefined, Array(<<K_SHELLOPTS>>)}
WarnChoices == {"undefined", "warnFn"}

VARIABLES
    env,                       \* process.env: its keys, in enumeration order
    cleanedEnv,                \* the caller's cleaned-env object: key -> value
    options,                   \* the caller's options object
    DEFAULT_IGNORE_PREFIXES,   \* the exported module-level array
    DEFAULT_IGNORE_VARIABLES,  \* the exported module-level array
    calls,                     \* calls made since the inputs last changed
    outcome,                   \* how the last call ended
    unusedKeys,                \* the array the last call returned
    unusedKeysRef,             \* which array object that reference denotes
    warnCalls                  \* the invocations of warn made by the last call

vars == <<env, cleanedEnv, options, DEFAULT_IGNORE_PREFIXES,
          DEFAULT_IGNORE_VARIABLES, calls, outcome, unusedKeys, unusedKeysRef,
          warnCalls>>

(***************************************************************************)
(* The module-level array literals.                                        *)
(***************************************************************************)
\* a slip: an entry written without its underscore
PrefixesLiteral_Bare ==
    << <<"n", "p", "m">>,
       <<"N", "O", "D", "E", "_">>,
       <<"L", "C", "_">>,
       <<"S", "S", "H", "_">>,
       <<"X", "D", "G", "_">>,
       <<"D", "B", "U", "S", "_">> >>

PrefixesLiteral ==
    << <<"n", "p", "m", "_">>,
       <<"N", "O", "D", "E", "_">>,
       <<"L", "C", "_">>,
       <<"S", "S", "H", "_">>,
       <<"X", "D", "G", "_">>,
       <<"D", "B", "U", "S", "_">> >>

VariablesLiteral ==
    << <<"S", "H", "E", "L", "L">>,
       <<"T", "E", "R", "M">>,
       <<"U", "S", "E", "R">>,
       <<"H", "O", "M", "E">>,
       <<"P", "A", "T", "H">>,
       <<"P", "W", "D">>,
       <<"L", "A", "N", "G">>,
       <<"D", "I", "S", "P", "L", "A", "Y">>,
       <<"C", "O", "L", "O", "R", "T", "E", "R", "M">>,
       <<"E", "D", "I", "T", "O", "R">>,
       <<"V", "I", "S", "U", "A", "L">>,
       <<"P", "A", "G", "E", "R">>,
       <<"L", "E", "S", "S">>,
       <<"H", "O", "S", "T", "N", "A", "M", "E">>,
       <<"L", "O", "G", "N", "A", "M", "E">>,
       <<"M", "A", "I", "L">>,
       <<"O", "L", "D", "P", "W", "D">>,
       <<"S", "H", "L", "V", "L">>,
       <<"_">> >>

(***************************************************************************)
(* JavaScript built-ins the function uses.                                 *)
(***************************************************************************)
\* a slip: Object.values in place of Object.keys
ObjectKeys_Values(obj) == {obj[k] : k \in DOMAIN obj}

\* Object.keys(obj) of a plain object
ObjectKeys(obj) == DOMAIN obj

\* a slip: the array consumed while it is read (a loop of arr.pop())
AfterIteration_Drained(arr) == [arr EXCEPT !.items = <<>>]

\* the array after new Set(arr) or arr.some(f) iterated it: as it was
AfterIteration(arr) == arr

\* the object after Object.keys(obj) enumerated it: as it was
AfterObjectKeys(obj) == obj

\* new Set(iterable); new Set(undefined) is the empty set
NewSet(arr) == IF arr.defined THEN {arr.items[i] : i \in 1..Len(arr.items)} ELSE {}

\* a slip: the prefix compared for equality
StartsWith_Equal(key, prefix) == key = prefix

\* key.startsWith(prefix)
StartsWith(key, prefix) ==
    /\ Len(prefix) <= Len(key)
    /\ \A i \in 1..Len(prefix) : key[i] = prefix[i]

\* a slip: every in place of some
SomeStartsWith_Every(arr, key) == \A i \in 1..Len(arr) : StartsWith(key, arr[i])

\* arr.some(f) for f = key.startsWith
SomeStartsWith(arr, key) == \E i \in 1..Len(arr) : StartsWith(key, arr[i])

Digits == <<"0", "1", "2", "3", "4", "5", "6", "7", "8", "9">>

\* the decimal string of a non-negative integer, as string + number builds it
RECURSIVE NumberToString(_)
NumberToString(n) ==
    IF n < 10 THEN <<Digits[n + 1]>>
    ELSE NumberToString(n \div 10) \o <<Digits[(n % 10) + 1]>>

\* arr.join(sep)
RECURSIVE Join(_, _)
Join(arr, sep) ==
    IF Len(arr) = 0 THEN <<>>
    ELSE IF Len(arr) = 1 THEN arr[1]
    ELSE Join(SubSeq(arr, 1, Len(arr) - 1), sep) \o sep \o arr[Len(arr)]

(***************************************************************************)
(* warnUnused                                                              *)
(***************************************************************************)
\* a slip: the supplied list merged with the default
DefaultTo_Merge(value, fallback) == Array(value.items \o fallback)

\* a slip: the property read without a default
DefaultTo_Never(value, fallback) == value

\* a destructuring default: the fallback applies to an omitted property only
DefaultTo(value, fallback) == IF value.defined THEN value ELSE Array(fallback)

\* warn = console.warn
WarnOrConsole(w) == IF w = "undefined" THEN "console.warn" ELSE w

\* the filter callback: "keep", "drop", or "throw" when ignorePrefixes.some
\* is reached and ignorePrefixes is not an array
KeepKey(key, definedKeys, ignoreVariablesSet, ignorePrefixes) ==
    IF key \in definedKeys THEN "drop"
    ELSE IF key \in ignoreVariablesSet THEN "drop"
    ELSE IF ~ignorePrefixes.defined THEN "throw"
    ELSE IF SomeStartsWith(ignorePrefixes.items, key) THEN "drop"
    ELSE "keep"

\* a slip: the result collected in an array that outlives the call
NewArray_Leftover == unusedKeys

\* the array Array.prototype.filter starts from
NewArray == <<>>

\* the identity of that array: a new object, which no other reference denotes
NewArrayRef == "new"

\* a slip: the kept keys collected in front of the earlier ones
RECURSIVE FilterKeys_Unshift(_, _, _, _, _, _)
FilterKeys_Unshift(keys, i, acc, definedKeys, ignoreVariablesSet, ignorePrefixes) ==
    IF i > Len(keys) THEN [threw |-> FALSE, keys |-> acc]
    ELSE LET verdict == KeepKey(keys[i], definedKeys, ignoreVariablesSet,
                                ignorePrefixes)
         IN  IF verdict = "throw" THEN [threw |-> TRUE, keys |-> <<>>]
             ELSE FilterKeys_Unshift(keys, i + 1,
                             IF verdict = "keep" THEN <<keys[i]>> \o acc ELSE acc,
                             definedKeys, ignoreVariablesSet, ignorePrefixes)

\* processEnvKeys.filter(callback), from index i on, acc being the kept keys
RECURSIVE FilterKeys(_, _, _, _, _, _)
FilterKeys(keys, i, acc, definedKeys, ignoreVariablesSet, ignorePrefixes) ==
    IF i > Len(keys) THEN [threw |-> FALSE, keys |-> acc]
    ELSE LET verdict == KeepKey(keys[i], definedKeys, ignoreVariablesSet,
                                ignorePrefixes)
         IN  IF verdict = "throw" THEN [threw |-> TRUE, keys |-> <<>>]
             ELSE FilterKeys(keys, i + 1,
                             IF verdict = "keep" THEN Append(acc, keys[i]) ELSE acc,
                             definedKeys, ignoreVariablesSet, ignorePrefixes)

MessageHead ==
    <<"[", "e", "n", "v", "a", "l", "i", "d", "-", "u", "n", "u", "s", "e", "d",
      "]", " ", "F", "o", "u", "n", "d", " ">>
MessageTail ==
    <<" ", "u", "n", "u", "s", "e", "d", " ", "e", "n", "v", "i", "r", "o", "n",
      "m", "e", "n", "t", " ", "v", "a", "r", "i", "a", "b", "l", "e", "(", "s",
      ")", ":", " ">>
CommaSpace == <<",", " ">>

\* the warning text
Message(keys) ==
    MessageHead \o NumberToString(Len(keys)) \o MessageTail \o Join(keys, CommaSpace)

\* a slip: a single unused key goes unreported
Warnings_MoreThanOne(warn, keys) ==
    IF Len(keys) > 1 THEN <<[fn |-> warn, message |-> Message(keys)]>> ELSE <<>>

\* the calls of warn the body makes for the filtered keys
Warnings(warn, keys) ==
    IF Len(keys) > 0 THEN <<[fn |-> warn, message |-> Message(keys)]>> ELSE <<>>

\* the body of warnUnused on arguments (obj, opts), reading process.env and the
\* module-level defaults: whether it threw, what it returned, what it warned
WarnUnusedBody(obj, opts) ==
    LET warn == WarnOrConsole(opts.warn)
        ignorePrefixes == DefaultTo(opts.ignorePrefixes, DEFAULT_IGNORE_PREFIXES)
        ignoreVariables == DefaultTo(opts.ignoreVariables, DEFAULT_IGNORE_VARIABLES)
        definedKeys == ObjectKeys(obj)
        processEnvKeys == env
        ignoreVariablesSet == NewSet(ignoreVariables)
        filtered == FilterKeys(processEnvKeys, 1, NewArray, definedKeys,
                               ignoreVariablesSet, ignorePrefixes)
    IN  IF filtered.threw
        THEN [threw |-> TRUE, unusedKeys |-> <<>>, warnCalls |-> <<>>]
        ELSE [threw |-> FALSE, unusedKeys |-> filtered.keys,
              warnCalls |-> Warnings(warn, filtered.keys)]

\* the TypeError a call ends with, or "returned"
Outcome(r) == IF r.threw THEN "threw" ELSE "returned"

\* one call warnUnused(cleanedEnv, options)
WarnUnused ==
    /\ calls < MaxCalls
    /\ LET r == WarnUnusedBody(cleanedEnv, options)
       IN  /\ outcome' = Outcome(r)
           /\ unusedKeys' = IF r.threw THEN unusedKeys ELSE r.unusedKeys
           /\ unusedKeysRef' = IF r.threw THEN unusedKeysRef ELSE NewArrayRef
           /\ warnCalls' = r.warnCalls
    \* the array a call iterates is the caller's when the option is supplied and
    \* the exported array itself when it is omitted
    /\ options' =
          [options EXCEPT
             !.ignorePrefixes = IF @.defined THEN AfterIteration(@) ELSE @,
             !.ignoreVariables = IF @.defined THEN AfterIteration(@) ELSE @]
    /\ DEFAULT_IGNORE_PREFIXES' =
          IF options.ignorePrefixes.defined THEN DEFAULT_IGNORE_PREFIXES
          ELSE AfterIteration(Array(DEFAULT_IGNORE_PREFIXES)).items
    /\ DEFAULT_IGNORE_VARIABLES' =
          IF options.ignoreVariables.defined THEN DEFAULT_IGNORE_VARIABLES
          ELSE AfterIteration(Array(DEFAULT_IGNORE_VARIABLES)).items
    /\ env' = AfterObjectKeys(env)
    /\ cleanedEnv' = AfterObjectKeys(cleanedEnv)
    /\ calls' = calls + 1

(***************************************************************************)
(* The caller and the environment between calls.                           *)
(***************************************************************************)
\* process.env[k] = value, for a k not yet set
SetEnvVar(k) ==
    /\ Len(env) < MaxEnv
    /\ \A i \in 1..Len(env) : env[i] # k
    /\ env' = Append(env, k)
    /\ calls' = 0
    /\ UNCHANGED <<cleanedEnv, options, DEFAULT_IGNORE_PREFIXES,
                   DEFAULT_IGNORE_VARIABLES, outcome, unusedKeys, unusedKeysRef,
                   warnCalls>>

\* delete process.env[k]
DeleteEnvVar(k) ==
    /\ \E i \in 1..Len(env) : env[i] = k
    /\ env' = SelectSeq(env, LAMBDA x : x # k)
    /\ calls' = 0
    /\ UNCHANGED <<cleanedEnv, options, DEFAULT_IGNORE_PREFIXES,
                   DEFAULT_IGNORE_VARIABLES, outcome, unusedKeys, unusedKeysRef,
                   warnCalls>>

\* the caller validates against another schema
SetCleanedEnv(ks) ==
    /\ ks # DOMAIN cleanedEnv
    /\ cleanedEnv' = [k \in ks |-> SomeValue]
    /\ calls' = 0
    /\ UNCHANGED <<env, options, DEFAULT_IGNORE_PREFIXES,
                   DEFAULT_IGNORE_VARIABLES, outcome, unusedKeys, unusedKeysRef,
                   warnCalls>>

\* the caller builds another options object
SetOptions(w, p, v, g) ==
    /\ LET o == [warn |-> w, ignorePrefixes |-> p, ignoreVariables |-> v,
                 ignore |-> g]
       IN  /\ o # options
           /\ options' = o
    /\ calls' = 0
    /\ UNCHANGED <<env, cleanedEnv, DEFAULT_IGNORE_PREFIXES,
                   DEFAULT_IGNORE_VARIABLES, outcome, unusedKeys, unusedKeysRef,
                   warnCalls>>

\* the caller changes one property of the options object
ChangeOption ==
    \/ \E w \in WarnChoices :
          SetOptions(w, options.ignorePrefixes, options.ignoreVariables,
                     options.ignore)
    \/ \E p \in IgnorePrefixesChoices :
          SetOptions(options.warn, p, options.ignoreVariables, options.ignore)
    \/ \E v \in IgnoreVariablesChoices :
          SetOptions(options.warn, options.ignorePrefixes, v, options.ignore)
    \/ \E g \in IgnoreChoices :
          SetOptions(options.warn, options.ignorePrefixes,
                     options.ignoreVariables, g)

Init ==
    /\ env = <<>>
    /\ cleanedEnv = [k \in {} |-> SomeValue]
    /\ options = [warn |-> "undefined", ignorePrefixes |-> Undefined,
                  ignoreVariables |-> Undefined, ignore |-> Undefined]
    /\ DEFAULT_IGNORE_PREFIXES = PrefixesLiteral
    /\ DEFAULT_IGNORE_VARIABLES = VariablesLiteral
    /\ calls = 0
    /\ outcome = "none"
    /\ unusedKeys = <<>>
    /\ unusedKeysRef = "none"
    /\ warnCalls = <<>>

Next ==
    \/ WarnUnused
    \/ \E k \in EnvNames : SetEnvVar(k)
    \/ \E k \in EnvNames : DeleteEnvVar(k)
    \/ \E ks \in SchemaKeySets : SetCleanedEnv(ks)
    \/ ChangeOption

Spec == Init /\ [][Next]_vars

(***************************************************************************)
(* The vocabulary of the claims, stated without the operators of the       *)
(* model above.                                                            *)
(***************************************************************************)
\* the last call returned, and nothing it read has changed since
Returned == calls > 0 /\ outcome = "returned"

Elems(seq) == {seq[i] : i \in 1..Len(seq)}

\* p is an initial segment of s
IsPrefixOf(p, s) == Len(p) <= Len(s) /\ SubSeq(s, 1, Len(p)) = p

\* the ignore policy in force: the supplied list, else the exported default
PolicyNames ==
    IF options.ignoreVariables.defined THEN options.ignoreVariables.items
    ELSE DEFAULT_IGNORE_VARIABLES
PolicyPrefixes ==
    IF options.ignorePrefixes.defined THEN options.ignorePrefixes.items
    ELSE DEFAULT_IGNORE_PREFIXES

\* one of the three exclusions applies to name k under lists ns and ps
ExcludedBy(k, defined, ns, ps) ==
    \/ k \in defined
    \/ k \in Elems(ns)
    \/ \E p \in Elems(ps) : IsPrefixOf(p, k)

Excluded(k) == ExcludedBy(k, DOMAIN cleanedEnv, PolicyNames, PolicyPrefixes)

(***************************************************************************)
(* C1                                                                      *)
(***************************************************************************)
\* C1: every name warnUnused returns is a key of the environment, is not a key
\* of the defined-key object, is not in the ignoreVariables list in force, and
\* starts with no entry of the ignorePrefixes list in force; and no name is
\* returned twice.
C1_ResultSound ==
    Returned =>
        /\ \A i \in 1..Len(unusedKeys) :
              /\ unusedKeys[i] \in Elems(env)
              /\ unusedKeys[i] \notin DOMAIN cleanedEnv
              /\ unusedKeys[i] \notin Elems(PolicyNames)
              /\ \A p \in Elems(PolicyPrefixes) : ~IsPrefixOf(p, unusedKeys[i])
        /\ \A i, j \in 1..Len(unusedKeys) :
              unusedKeys[i] = unusedKeys[j] => i = j

\* a call that returned a name while the environment also held a defined key
\* and a key that only a caller-supplied prefix excludes
C1_Witness ==
    /\ Returned
    /\ Len(unusedKeys) = 1
    /\ Len(env) = 3
    /\ options.ignorePrefixes.defined
    /\ \E k \in Elems(env) : k \in DOMAIN cleanedEnv
    /\ \E k \in Elems(env) :
          /\ k \notin DOMAIN cleanedEnv
          /\ k \notin Elems(PolicyNames)
          /\ \E p \in Elems(PolicyPrefixes) : IsPrefixOf(p, k) /\ p # k

(***************************************************************************)
(* C2                                                                      *)
(***************************************************************************)
\* C2: the result is exactly the environment's key sequence, in the
\* environment's order, without the keys that are defined, listed in
\* ignoreVariables or started by an ignorePrefixes entry.
C2_ResultIsFilteredEnv ==
    Returned => unusedKeys = SelectSeq(env, LAMBDA k : ~Excluded(k))

\* a call that returned two names in the environment's order, which is not
\* the alphabetical one, around a key it left out
C2_Witness ==
    /\ Returned
    /\ env = <<K_SHELLOPTS, K_LC_ALL, K_SHELL>>
    /\ unusedKeys = <<K_SHELLOPTS, K_SHELL>>

(***************************************************************************)
(* C3                                                                      *)
(***************************************************************************)
ClaimHead ==
    <<"[", "e", "n", "v", "a", "l", "i", "d", "-", "u", "n", "u", "s", "e", "d",
      "]", " ", "F", "o", "u", "n", "d", " ">>
ClaimTail ==
    <<" ", "u", "n", "u", "s", "e", "d", " ", "e", "n", "v", "i", "r", "o", "n",
      "m", "e", "n", "t", " ", "v", "a", "r", "i", "a", "b", "l", "e", "(", "s",
      ")", ":", " ">>

DigitValue(c) == CHOOSE d \in 0..9 : Digits[d + 1] = c

RECURSIVE DecimalValue(_)
DecimalValue(ds) ==
    IF Len(ds) = 0 THEN 0
    ELSE 10 * DecimalValue(SubSeq(ds, 1, Len(ds) - 1)) + DigitValue(ds[Len(ds)])

\* ds is the decimal numeral of n: digits only, no leading zero, value n
IsDecimalOf(ds, n) ==
    /\ Len(ds) >= 1
    /\ \A i \in 1..Len(ds) : ds[i] \in Elems(Digits)
    /\ Len(ds) > 1 => ds[1] # "0"
    /\ DecimalValue(ds) = n

\* the names, first to last, with ", " between neighbours
RECURSIVE CommaSeparated(_)
CommaSeparated(names) ==
    IF Len(names) = 0 THEN <<>>
    ELSE IF Len(names) = 1 THEN names[1]
    ELSE names[1] \o <<",", " ">> \o CommaSeparated(Tail(names))

\* m is the head, the numeral of the count, the tail and the names
IsReportOf(m, names) ==
    \E w \in 1..3 :
        LET h == Len(ClaimHead)
            t == Len(ClaimTail)
        IN  /\ Len(m) >= h + w + t
            /\ SubSeq(m, 1, h) = ClaimHead
            /\ IsDecimalOf(SubSeq(m, h + 1, h + w), Len(names))
            /\ SubSeq(m, h + w + 1, h + w + t) = ClaimTail
            /\ SubSeq(m, h + w + t + 1, Len(m)) = CommaSeparated(names)

\* a returned array of n names, for the counts no bounded environment reaches
ManyKeys(n) == [i \in 1..n |-> IF i % 2 = 1 THEN K_SHELLOPTS ELSE K_LC_ALL]

\* the warning text built for 1..MaxCount names is the report of those names
LongReports == \A n \in 1..MaxCount : IsReportOf(Message(ManyKeys(n)), ManyKeys(n))

\* C3: a call invokes warn exactly once when it returns a non-empty sequence
\* and never when it returns the empty one; the argument is
\* "[envalid-unused] Found <N> unused environment variable(s): " followed by
\* the returned names joined with ", ", <N> being the decimal length.
C3_WarnOnceWithMessage ==
    Returned =>
        /\ unusedKeys = <<>> => warnCalls = <<>>
        /\ unusedKeys # <<>> =>
              /\ Len(warnCalls) = 1
              /\ warnCalls[1].fn =
                    (IF options.warn = "undefined" THEN "console.warn"
                     ELSE options.warn)
              /\ IsReportOf(warnCalls[1].message, unusedKeys)
              /\ LongReports

\* a call that reported two names to the caller's warn function
C3_Witness ==
    /\ Returned
    /\ Len(unusedKeys) = 2
    /\ Len(warnCalls) = 1
    /\ warnCalls[1].fn = "warnFn"

(***************************************************************************)
(* C4                                                                      *)
(***************************************************************************)
\* C4: a key of the environment that is listed in the option named `ignore`
\* is excluded from the result of warnUnused and from the warning.
C4_IgnoreOptionExcludes ==
    (Returned /\ options.ignore.defined) =>
        \A k \in Elems(options.ignore.items) :
            /\ k \notin Elems(unusedKeys)
            /\ \A i \in 1..Len(warnCalls) :
                  \A names \in {unusedKeys} :
                      IsReportOf(warnCalls[i].message, names) => k \notin Elems(names)

(***************************************************************************)
(* C5                                                                      *)
(***************************************************************************)
IsDefaultName(k) == k \in Elems(DEFAULT_IGNORE_VARIABLES)
HasDefaultPrefix(k) == \E p \in Elems(DEFAULT_IGNORE_PREFIXES) : IsPrefixOf(p, k)
IsSuppliedName(k) == k \in Elems(options.ignoreVariables.items)
HasSuppliedPrefix(k) ==
    \E p \in Elems(options.ignorePrefixes.items) : IsPrefixOf(p, k)

\* C5: an omitted ignoreVariables means DEFAULT_IGNORE_VARIABLES and an
\* omitted ignorePrefixes means DEFAULT_IGNORE_PREFIXES, each whatever the
\* other options are; a supplied list, the empty one included, is used alone,
\* without the default.
C5_DefaultsIndependent ==
    Returned =>
        \A k \in Elems(env) \ DOMAIN cleanedEnv :
            LET byName == IF options.ignoreVariables.defined
                          THEN IsSuppliedName(k) ELSE IsDefaultName(k)
                byPrefix == IF options.ignorePrefixes.defined
                            THEN HasSuppliedPrefix(k) ELSE HasDefaultPrefix(k)
            IN  k \in Elems(unusedKeys) <=> ~(byName \/ byPrefix)

\* a call with ignoreVariables omitted and ignorePrefixes supplied empty: the
\* default name is left out, the name with a default prefix is returned
C5_Witness ==
    /\ Returned
    /\ ~options.ignoreVariables.defined
    /\ options.ignorePrefixes = Array(<<>>)
    /\ options.warn = "warnFn"
    /\ K_SHELL \in Elems(env) \ DOMAIN cleanedEnv
    /\ K_SHELL \notin Elems(unusedKeys)
    /\ K_LC_ALL \in Elems(unusedKeys)

(***************************************************************************)
(* C6                                                                      *)
(***************************************************************************)
\* the cleaned-env object with key k added
WithKey(obj, k) == [x \in (DOMAIN obj) \cup {k} |-> SomeValue]

\* C6: for a name k in the result, the call with k added to the defined-key
\* object, the environment and the policy being the same, returns the former
\* result without k, the other names in the same order.
C6_DefinedKeyRemovesExactlyIt ==
    Returned =>
        \A k \in Elems(unusedKeys) :
            LET again == WarnUnusedBody(WithKey(cleanedEnv, k), options)
            IN  /\ ~again.threw
                /\ again.unusedKeys = SelectSeq(unusedKeys, LAMBDA x : x # k)

\* a call that returned a name together with a longer name that starts with it
C6_Witness ==
    /\ Returned
    /\ K_SHELL \in Elems(unusedKeys)
    /\ K_SHELLOPTS \in Elems(unusedKeys)
    /\ Len(env) = 3

(***************************************************************************)
(* C7                                                                      *)
(***************************************************************************)
\* names and prefixes a caller may add to the policy
AddableNames == EnvNames \cup {K_PORT, P_LC_}
AddablePrefixes == EnvNames \cup {K_PORT, P_LC_, P_LC_A, P_S, P_EMPTY}

WithIgnoredName(opts, n) ==
    [opts EXCEPT !.ignoreVariables = Array(PolicyNames \o <<n>>)]
WithIgnoredPrefix(opts, p) ==
    [opts EXCEPT !.ignorePrefixes = Array(PolicyPrefixes \o <<p>>)]

\* C7: adding a name to ignoreVariables removes from the result the names
\* equal to it, adding a string to ignorePrefixes removes the names that start
\* with it, and the other names stay, in the same order.
C7_IgnoreMoreRemovesMatches ==
    Returned =>
        /\ \A n \in AddableNames :
              LET again == WarnUnusedBody(cleanedEnv, WithIgnoredName(options, n))
              IN  /\ ~again.threw
                  /\ again.unusedKeys = SelectSeq(unusedKeys, LAMBDA x : x # n)
        /\ \A p \in AddablePrefixes :
              LET again == WarnUnusedBody(cleanedEnv, WithIgnoredPrefix(options, p))
              IN  /\ ~again.threw
                  /\ again.unusedKeys =
                        SelectSeq(unusedKeys, LAMBDA x : ~IsPrefixOf(p, x))

\* a call that returned all three names, of which an added prefix removes two
\* and an added name one
C7_Witness ==
    /\ Returned
    /\ Len(unusedKeys) = 3
    /\ options.ignorePrefixes.defined
    /\ options.ignoreVariables.defined

(***************************************************************************)
(* C8                                                                      *)
(***************************************************************************)
\* what a call reports to, and whether it reports, from its inputs alone
ReportsFrom(names) ==
    IF names = <<>> THEN {}
    ELSE {IF options.warn = "undefined" THEN "console.warn" ELSE options.warn}

\* C8: whatever calls came before and however the environment changed between
\* them, a call's result and report are those its own arguments and the
\* environment at that time determine; a call repeated with nothing changed
\* returns the same sequence and makes the same report.
C8_Stateless ==
    [][WarnUnused =>
          /\ outcome' = "returned"
          /\ Elems(unusedKeys') = {k \in Elems(env) : ~Excluded(k)}
          /\ Len(unusedKeys') = Cardinality(Elems(unusedKeys'))
          /\ {warnCalls'[i].fn : i \in 1..Len(warnCalls')} = ReportsFrom(unusedKeys')
          /\ calls > 0 => (unusedKeys' = unusedKeys /\ warnCalls' = warnCalls)
      ]_vars

\* a second call with nothing changed since the first, which had a report
C8_Witness ==
    /\ calls = 2
    /\ outcome = "returned"
    /\ Len(unusedKeys) = 2
    /\ Len(warnCalls) = 1

EndsWithUnderscore(s) == Len(s) > 0 /\ s[Len(s)] = "_"

\* C10: every entry of DEFAULT_IGNORE_PREFIXES ends with an underscore, and
\* no entry of DEFAULT_IGNORE_VARIABLES does, except the entry "_".
C10_DefaultListsConsistent ==
    /\ \A i \in 1..Len(DEFAULT_IGNORE_PREFIXES) :
          EndsWithUnderscore(DEFAULT_IGNORE_PREFIXES[i])
    /\ \A i \in 1..Len(DEFAULT_IGNORE_VARIABLES) :
          EndsWithUnderscore(DEFAULT_IGNORE_VARIABLES[i]) =>
              DEFAULT_IGNORE_VARIABLES[i] = <<"_">>

\* the two lists as a call finds them: six prefixes, nineteen names, the
\* entry "_" among the names
C10_Witness ==
    /\ Returned
    /\ Len(DEFAULT_IGNORE_PREFIXES) = 6
    /\ Len(DEFAULT_IGNORE_VARIABLES) = 19
    /\ \E i \in 1..Len(DEFAULT_IGNORE_VARIABLES) :
          DEFAULT_IGNORE_VARIABLES[i] = <<"_">>

(***************************************************************************)
(* C11                                                                     *)
(***************************************************************************)
\* the array objects a call is handed: the caller's two lists and the two
\* exported lists
InputArrayRefs ==
    {"options.ignorePrefixes", "options.ignoreVariables",
     "DEFAULT_IGNORE_PREFIXES", "DEFAULT_IGNORE_VARIABLES"}

\* C11: a call leaves the environment, the defined-key object, the caller's
\* ignorePrefixes and ignoreVariables lists and the two exported default lists
\* with the contents they had before it, whether or not it warned; the
\* sequence it returns is a new one, none of those lists.
C11_InputsUnchanged ==
    [][WarnUnused =>
          /\ env' = env
          /\ cleanedEnv' = cleanedEnv
          /\ options' = options
          /\ DEFAULT_IGNORE_PREFIXES' = DEFAULT_IGNORE_PREFIXES
          /\ DEFAULT_IGNORE_VARIABLES' = DEFAULT_IGNORE_VARIABLES
          /\ unusedKeysRef' \notin InputArrayRefs
      ]_vars

\* a call that warned, with ignoreVariables bound to the exported default
\* array and ignorePrefixes to a caller's array
C11_Witness ==
    /\ Returned
    /\ Len(warnCalls) = 1
    /\ unusedKeysRef = "new"
    /\ ~options.ignoreVariables.defined
    /\ options.ignorePrefixes.defined
    /\ Len(options.ignorePrefixes.items) = 1
    /\ DOMAIN cleanedEnv # {}
    /\ Len(env) = 3

====
